---- MODULE Spec2Model ----
(***************************************************************************)
(* Model of runint's deployment lifecycle:                                 *)
(*   runint/runtime/manager.py            RuntimeManager                   *)
(*   runint/runtime/deploy/generators.py  DockerComposeGenerator           *)
(*   runint/cli.py                        deploy                           *)
(* The container runtime (docker-compose), the engine's HTTP endpoint, the *)
(* clock and the filesystem are the environment: their answers are chosen  *)
(* nondeterministically.  Time is counted in ticks of 1/TicksPerSecond s.  *)
(***************************************************************************)
EXTENDS Integers, Sequences, FiniteSets, TLC

\* ---------------------------------------------------------------- bounds
MaxModels == 2        \* longest RunConfig.models list explored
MaxReadyAt == 3       \* latest attempt at which the probe plan turns ready
TicksPerSecond == 2   \* clock resolution
MaxDeclLen == 2       \* longest volume declaration explored, in characters
MaxVolumes == 1       \* longest volumes list of a service definition explored

\* ------------------------------------------------------ program constants
Timeout == 60         \* _wait_for_health(timeout=60)
PollInterval == 2     \* time.sleep(2)
ProbeTimeout == 1     \* requests.get(url, timeout=1)

TimeoutTicks == Timeout * TicksPerSecond
PollTicks == PollInterval * TicksPerSecond
ProbeTicks == ProbeTimeout * TicksPerSecond
\* the attempt counter (a history variable) saturates here
ProbeCap == MaxReadyAt + 1

DefaultPath == "docker-compose.yml"
Paths == {DefaultPath, "alt.yml"}
Providers == {"ollama", "vllm", "tgi"}
ModelNames == {"m1", "m2"}

\* all sequences over S of length at most n
RECURSIVE SeqsUpTo(_, _)
SeqsUpTo(S, n) ==
    IF n = 0 THEN {<<>>}
    ELSE LET shorter == SeqsUpTo(S, n - 1)
         IN shorter \cup {Append(s, x) : s \in {t \in shorter : Len(t) = n - 1}, x \in S}

Min(a, b) == IF a < b THEN a ELSE b

\* ------------------------------------------------------------- generator
\* A volume declaration is the sequence of its characters.
NoService == [image |-> "", has_volumes |-> FALSE, volumes |-> <<>>]

\* run_config.engine.model_dump(): the engine section only, without models
engine_conf(run_config) == [provider |-> run_config.provider]

\* engine.get_docker_service_config() of the two adapters
get_docker_service_config(conf) ==
    IF conf.provider = "ollama"
    THEN [image |-> "ollama/ollama", has_volumes |-> TRUE,
          volumes |-> << <<"d", ":", "/", "r">> >>]
    ELSE [image |-> "vllm/vllm-openai", has_volumes |-> TRUE,
          volumes |-> << <<"~", "/", "c", ":", "/", "r">> >>]

\* vol.split(":")[0]
RECURSIVE SplitHead(_)
SplitHead(vol) ==
    IF vol = <<>> \/ Head(vol) = ":" THEN <<>>
    ELSE <<Head(vol)>> \o SplitHead(Tail(vol))

Contains(s, ch) == \E k \in 1..Len(s) : s[k] = ch

\* variant: only the path separator marks a bind mount
IsNamedVolume_SlashOnly(vol_name) == ~Contains(vol_name, "/")

\* "/" not in vol_name and "~" not in vol_name
IsNamedVolume(vol_name) == ~Contains(vol_name, "/") /\ ~Contains(vol_name, "~")

SupportedProviders == {"ollama", "vllm"}

\* generators.py:41-46: the keys of the top-level volumes mapping
NamedVolumes(service_def) ==
    IF ~service_def.has_volumes THEN {}
    ELSE LET heads == {SplitHead(service_def.volumes[k]) :
                         k \in 1..Len(service_def.volumes)}
         IN {v \in heads : IsNamedVolume(v)}

\* DockerComposeGenerator.generate, given the answer the provider's adapter
\* gives for engine_conf: the compose document, or the error raised
generate_with(adapter_answer, run_config) ==
    LET provider == run_config.provider IN
    IF provider \notin SupportedProviders
    THEN [error |-> "ValueError", doc |-> [version |-> "", service_name |-> "",
                                           service |-> NoService, volumes |-> {}]]
    ELSE LET service_def == adapter_answer
         IN [error |-> "none",
             doc |-> [version |-> "3.8", service_name |-> provider,
                      service |-> service_def,
                      volumes |-> NamedVolumes(service_def)]]

\* DockerComposeGenerator.generate
generate(run_config) ==
    generate_with(get_docker_service_config(engine_conf(run_config)), run_config)

\* ------------------------------------------------------------------ state
VARIABLES
    config,        \* RuntimeManager.config: [provider, models]
    docker,        \* environment: is the docker-compose executable present
    fs,            \* environment: path -> file content
    compose_file,  \* RuntimeManager.compose_file
    session,       \* history: lifecycle state of the DeploymentSession
    genCalled,     \* history: generate_deployment has been called
    op,            \* the operation called last ("none" before the first)
    pc,            \* position inside the running operation, "idle" between calls
    result,        \* outcome of op: [kind, at], kind "none" is a normal return
    pre,           \* history: the session and the files when op was called
    upCalls,       \* history: 'docker-compose up' invocations of this call
    downCalls,     \* history: 'docker-compose down' invocations of this call
    upExit,        \* history: how this call's 'up' ended
    readyAt,       \* environment: attempt from which the probe succeeds, 0 never
    elapsed,       \* time.time() - start_time, in ticks
    probes,        \* history: probe attempts of this call (saturating)
    probeEnd,      \* history: elapsed when the last probe attempt ended
    gapsOk,        \* history: every retry began PollInterval after the failure
    healthOk,      \* history: a probe of this call succeeded
    idx,           \* execute_models: index of the model being initialised
    pullLog,       \* history: pull requests of this call, [name, status]
    upPath,        \* history: manifest of the latest 'up' command, "none" before
    downPath,      \* history: manifest of this call's 'down' command
    downExit,      \* history: how this call's 'down' ended
    cli,           \* the command line that drives the manager, if any
    gen            \* a direct use of DockerComposeGenerator: input and answer

vars == <<config, docker, fs, compose_file, session, genCalled, op, pc, result,
          pre, upCalls, downCalls, upExit, readyAt, elapsed, probes, probeEnd,
          gapsOk, healthOk, idx, pullLog, upPath, downPath, downExit, cli, gen>>

Absent == [exists |-> FALSE, text |-> "none", doc |-> generate([provider |-> "", models |-> <<>>]).doc]
OldFile == [exists |-> TRUE, text |-> "old", doc |-> Absent.doc]
ManifestFile(doc) == [exists |-> TRUE, text |-> "manifest", doc |-> doc]

Pending == [kind |-> "pending", at |-> "none"]
Ok == [kind |-> "none", at |-> "return"]
Raised(kind, at) == [kind |-> kind, at |-> at]

\* the manager is used as a library, no command was run
NoCli == [cmd |-> "none", dry_run |-> FALSE, cfg |-> "none"]

\* the generator is not used on its own
NoGen == [input |-> [provider |-> "", models |-> <<>>], service_def |-> NoService,
          output |-> generate([provider |-> "", models |-> <<>>]), called |-> FALSE]

\* attributes RuntimeManager.__init__ sets on the instance
InitAttrs == {"config", "compose_file"}

Init ==
    /\ config \in [provider : Providers, models : SeqsUpTo(ModelNames, MaxModels)]
    /\ docker \in {"installed", "missing"}
    /\ fs \in [Paths -> {Absent, OldFile}]
    /\ compose_file = DefaultPath
    /\ session = "Unstarted"
    /\ genCalled = FALSE
    /\ op = "none"
    /\ pc = "idle"
    /\ result = Ok
    /\ pre = [compose_file |-> DefaultPath, fs |-> fs, session |-> "Unstarted",
               output_path |-> DefaultPath]
    /\ upCalls = 0 /\ downCalls = 0 /\ upExit = "none"
    /\ readyAt = 0 /\ elapsed = 0 /\ probes = 0 /\ probeEnd = 0
    /\ gapsOk = TRUE /\ healthOk = FALSE
    /\ idx = 0 /\ pullLog = <<>>
    /\ upPath = "none" /\ downPath = "none" /\ downExit = "none"
    /\ cli = NoCli
    /\ gen = NoGen

\* every call starts with fresh per-call history
ResetCall ==
    /\ upCalls' = 0 /\ downCalls' = 0 /\ upExit' = "none"
    /\ readyAt' = 0 /\ elapsed' = 0 /\ probes' = 0 /\ probeEnd' = 0
    /\ gapsOk' = TRUE /\ healthOk' = FALSE
    /\ idx' = 0 /\ pullLog' = <<>>
    /\ downPath' = "none" /\ downExit' = "none"

\* what the session looked like when the operation was called
Snapshot(output_path) ==
    [compose_file |-> compose_file, fs |-> fs, session |-> session,
     output_path |-> output_path]

\* ----------------------------------------------------- generate_deployment
\* manager.py:17-28.  compose_file is assigned first; self.run_config is then
\* read, an attribute __init__ never sets.
GenerateDeployment(output_path) ==
    /\ pc = "idle"
    /\ cli.cmd = "none"
    /\ op' = "generate"
    /\ genCalled' = TRUE
    /\ pre' = Snapshot(output_path)
    /\ ResetCall
    /\ compose_file' = output_path
    /\ pc' = "idle"
    /\ UNCHANGED <<config, docker, gen, cli, upPath>>
    /\ IF "run_config" \notin InitAttrs
       THEN /\ result' = Raised("AttributeError", "generate")
            /\ UNCHANGED <<fs, session>>
       ELSE LET g == generate(config) IN
            IF g.error # "none"
            THEN /\ result' = Raised(g.error, "generate")
                 /\ UNCHANGED <<fs, session>>
            ELSE \E writable \in BOOLEAN :
                   IF writable
                   THEN /\ fs' = [fs EXCEPT ![output_path] = ManifestFile(g.doc)]
                        /\ result' = Ok
                        /\ session' = "Generated"
                   ELSE /\ result' = Raised("OSError", "write")
                        /\ UNCHANGED <<fs, session>>

\* ------------------------------------------------------- start_environment
\* manager.py:34-35: the guard is the existence of the file at compose_file
StartEnvironment ==
    /\ pc = "idle"
    /\ cli.cmd = "none"
    /\ op' = "start"
    /\ pre' = Snapshot(compose_file)
    /\ ResetCall
    /\ UNCHANGED <<config, docker, gen, cli, upPath, fs, compose_file, session,
                   genCalled>>
    /\ IF ~fs[compose_file].exists
       THEN /\ result' = Raised("FileNotFoundError", "precheck")
            /\ pc' = "idle"
       ELSE /\ result' = Pending
            /\ pc' = "up"

\* variant: subprocess.run without check=True
CheckRaises_NoCheck(code) == FALSE

\* subprocess.run(..., check=True) raises CalledProcessError on a non-zero exit
CheckRaises(code) == code # 0

\* manager.py:40-44 and 50-52
ComposeUp ==
    /\ pc = "up"
    /\ upCalls' = upCalls + 1
    /\ upPath' = compose_file
    /\ UNCHANGED <<config, docker, gen, cli, fs, compose_file, genCalled, op, pre,
                   downCalls, downPath, downExit,
                   probes, probeEnd, gapsOk, healthOk, idx, pullLog>>
    /\ IF docker = "missing"
       THEN /\ upExit' = "noexec"
            /\ result' = Raised("FileNotFoundError", "up")
            /\ pc' = "idle"
            /\ session' = "Failed"
            /\ UNCHANGED <<readyAt, elapsed>>
       ELSE \E code \in {0, 1} :
              /\ upExit' = IF code = 0 THEN "zero" ELSE "nonzero"
              /\ IF CheckRaises(code)
                 THEN /\ result' = Raised("RuntimeError", "up")
                      /\ pc' = "idle"
                      /\ session' = "Failed"
                      /\ UNCHANGED <<readyAt, elapsed>>
                 ELSE /\ pc' = "health"
                      /\ elapsed' = 0
                      /\ readyAt' \in 0..MaxReadyAt
                      /\ UNCHANGED <<result, session>>

\* ---------------------------------------------------------- _wait_for_health
\* variant: the loop falls through to a normal return when the time is up
WaitLoop_FallsThrough ==
    /\ pc = "health"
    /\ UNCHANGED <<config, docker, gen, cli, upPath, fs, compose_file, genCalled, op,
                   pre, upCalls,
                   downCalls, downPath, downExit, upExit, readyAt, elapsed, probes, probeEnd, gapsOk,
                   healthOk, pullLog, result, session>>
    /\ IF elapsed < TimeoutTicks
       THEN /\ pc' = "probe"
            /\ UNCHANGED idx
       ELSE /\ pc' = "models"
            /\ idx' = 1

\* variant: the environment is torn down when the time is up
WaitLoop_TearsDown ==
    /\ pc = "health"
    /\ UNCHANGED <<config, docker, gen, cli, upPath, fs, compose_file, genCalled, op,
                   pre, upCalls, upExit, readyAt, elapsed, probes, probeEnd, gapsOk,
                   healthOk, idx, pullLog>>
    /\ IF elapsed < TimeoutTicks
       THEN /\ pc' = "probe"
            /\ UNCHANGED <<result, session, downCalls, downPath, downExit>>
       ELSE /\ downCalls' = downCalls + 1
            /\ downPath' = compose_file
            /\ downExit' = "zero"
            /\ result' = Raised("TimeoutError", "health")
            /\ pc' = "idle"
            /\ session' = "Failed"

\* manager.py:106 and 116
WaitLoop ==
    /\ pc = "health"
    /\ UNCHANGED <<config, docker, gen, cli, upPath, fs, compose_file, genCalled, op,
                   pre, upCalls,
                   downCalls, downPath, downExit, upExit, readyAt, elapsed, probes, probeEnd, gapsOk,
                   healthOk, idx, pullLog>>
    /\ IF elapsed < TimeoutTicks
       THEN /\ pc' = "probe"
            /\ UNCHANGED <<result, session>>
       ELSE /\ result' = Raised("TimeoutError", "health")
            /\ pc' = "idle"
            /\ session' = "Failed"

\* classes of requests exception a failed requests.get can raise
ProbeErrors == {"ConnectionError", "ReadTimeout"}

\* except requests.ConnectionError (manager.py:112)
ProbeCaught(err) == err = "ConnectionError"

\* manager.py:107-112
ProbeAttempt ==
    /\ pc = "probe"
    /\ \E d \in 0..ProbeTicks :
         /\ elapsed' = elapsed + d
         /\ probeEnd' = elapsed + d
    /\ probes' = Min(probes + 1, ProbeCap)
    /\ gapsOk' = (gapsOk /\ (probes = 0 \/ elapsed - probeEnd = PollTicks))
    /\ UNCHANGED <<config, docker, gen, cli, upPath, fs, compose_file, genCalled, op,
                   pre, upCalls,
                   downCalls, downPath, downExit, upExit, readyAt, pullLog>>
    /\ IF readyAt # 0 /\ probes + 1 >= readyAt
       THEN /\ healthOk' = TRUE
            /\ pc' = "models"
            /\ idx' = 1
            /\ UNCHANGED <<result, session>>
       ELSE \E err \in ProbeErrors :
              /\ UNCHANGED <<healthOk, idx>>
              /\ IF ProbeCaught(err)
                 THEN /\ pc' = "sleep"
                      /\ UNCHANGED <<result, session>>
                 ELSE /\ result' = Raised(err, "health")
                      /\ pc' = "idle"
                      /\ session' = "Failed"

\* variant: the retry is immediate, the clock does not move
Sleep_NoDelay ==
    /\ pc = "sleep"
    /\ pc' = "health"
    /\ UNCHANGED <<config, docker, gen, cli, upPath, fs, compose_file, session,
                   genCalled, op, result, pre, upCalls, downCalls, downPath, downExit,
                   upExit, readyAt, elapsed, probes, probeEnd, gapsOk, healthOk, idx,
                   pullLog>>

\* manager.py:113-114
Sleep ==
    /\ pc = "sleep"
    /\ elapsed' = elapsed + PollTicks
    /\ pc' = "health"
    /\ UNCHANGED <<config, docker, gen, cli, upPath, fs, compose_file, session,
                   genCalled, op, result,
                   pre, upCalls, downCalls, downPath, downExit, upExit, readyAt, probes, probeEnd, gapsOk,
                   healthOk, idx, pullLog>>

\* ----------------------------------------------------------- execute_models
\* variant: every provider's models are pulled through the API
NeedsPull_Any(provider) == TRUE

\* manager.py:70: the provider whose models are pulled at run time
NeedsPull(provider) == provider = "ollama"

\* manager.py:67-76: loop head and the branches that only log
ExecuteModels ==
    /\ pc = "models"
    /\ UNCHANGED <<config, docker, gen, cli, upPath, fs, compose_file, genCalled, op,
                   pre, upCalls,
                   downCalls, downPath, downExit, upExit, readyAt, elapsed, probes, probeEnd, gapsOk,
                   healthOk>>
    /\ IF idx > Len(config.models)
       THEN /\ result' = Ok
            /\ pc' = "idle"
            /\ session' = "Running"
            /\ UNCHANGED <<idx, pullLog>>
       ELSE IF NeedsPull(config.provider)
            THEN /\ pullLog' = Append(pullLog, [name |-> config.models[idx],
                                                status |-> "inflight"])
                 /\ pc' = "pull"
                 /\ UNCHANGED <<result, session, idx>>
            ELSE /\ idx' = idx + 1
                 /\ UNCHANGED <<result, session, pc, pullLog>>

\* variant: the pull failure is logged and swallowed
PullRaises_Swallowed(status) == FALSE

\* resp.raise_for_status() and the re-raise of manager.py:91-93
PullRaises(status) == status = "failed"

\* manager.py:88-93: the answer to requests.post
PullResponse ==
    /\ pc = "pull"
    /\ UNCHANGED <<config, docker, gen, cli, upPath, fs, compose_file, genCalled, op,
                   pre, upCalls,
                   downCalls, downPath, downExit, upExit, readyAt, elapsed, probes, probeEnd, gapsOk,
                   healthOk>>
    /\ \E status \in {"ok", "failed"} :
         /\ pullLog' = [pullLog EXCEPT ![Len(pullLog)].status = status]
         /\ IF PullRaises(status)
            THEN /\ result' = Raised("RequestException", "pull")
                 /\ pc' = "idle"
                 /\ session' = "Failed"
                 /\ UNCHANGED idx
            ELSE /\ idx' = idx + 1
                 /\ pc' = "models"
                 /\ UNCHANGED <<result, session>>

\* -------------------------------------------------------- stop_environment
\* manager.py:58-59: subprocess.run without check, its exit code is not read
StopEnvironment ==
    /\ pc = "idle"
    /\ cli.cmd = "none"
    /\ op' = "stop"
    /\ pre' = Snapshot(compose_file)
    /\ upCalls' = 0 /\ upExit' = "none"
    /\ readyAt' = 0 /\ elapsed' = 0 /\ probes' = 0 /\ probeEnd' = 0
    /\ gapsOk' = TRUE /\ healthOk' = FALSE
    /\ idx' = 0 /\ pullLog' = <<>>
    /\ downCalls' = 1
    /\ downPath' = compose_file
    /\ pc' = "idle"
    /\ UNCHANGED <<config, docker, gen, cli, upPath, fs, compose_file, genCalled>>
    /\ IF docker = "missing"
       THEN /\ downExit' = "noexec"
            /\ result' = Raised("FileNotFoundError", "down")
            /\ UNCHANGED session
       ELSE /\ downExit' \in {"zero", "nonzero"}
            /\ result' = Ok
            /\ session' = "Stopped"

\* ------------------------------------------------------------- cli deploy
\* cli.py:47-75, run in a fresh process: the configuration file is loaded and
\* validated, a new RuntimeManager generates into docker-compose.yml and,
\* unless dry_run, enters start_environment.  Any exception ends the command
\* with "Deployment failed" and exit code 1.
Deploy(dry_run, cfg) ==
    /\ pc = "idle"
    /\ op = "none"
    /\ cli.cmd = "none"
    /\ cli' = [cmd |-> "deploy", dry_run |-> dry_run, cfg |-> cfg]
    /\ pre' = Snapshot(DefaultPath)
    /\ ResetCall
    /\ UNCHANGED <<config, docker, gen, upPath>>
    /\ IF cfg # "valid"
       THEN /\ result' = Raised(IF cfg = "missing" THEN "ConfigNotFound"
                                ELSE "ValidationError", "config")
            /\ pc' = "idle"
            /\ UNCHANGED <<op, fs, compose_file, session, genCalled>>
       ELSE /\ genCalled' = TRUE
            /\ compose_file' = DefaultPath
            /\ IF "run_config" \notin InitAttrs
               THEN /\ op' = "generate"
                    /\ result' = Raised("AttributeError", "generate")
                    /\ pc' = "idle"
                    /\ UNCHANGED <<fs, session>>
               ELSE LET g == generate(config) IN
                    IF g.error # "none"
                    THEN /\ op' = "generate"
                         /\ result' = Raised(g.error, "generate")
                         /\ pc' = "idle"
                         /\ UNCHANGED <<fs, session>>
                    ELSE \E writable \in BOOLEAN :
                           IF ~writable
                           THEN /\ op' = "generate"
                                /\ result' = Raised("OSError", "write")
                                /\ pc' = "idle"
                                /\ UNCHANGED <<fs, session>>
                           ELSE /\ fs' = [fs EXCEPT ![DefaultPath] = ManifestFile(g.doc)]
                                /\ session' = "Generated"
                                /\ IF dry_run
                                   THEN /\ op' = "generate"
                                        /\ result' = Ok
                                        /\ pc' = "idle"
                                   ELSE /\ op' = "start"
                                        /\ result' = Pending
                                        /\ pc' = "up"

\* the exit code of the command once it has ended (cli.py:49, 75)
ExitCode == IF result = Ok THEN 0 ELSE 1

Next ==
    \/ \E output_path \in Paths : GenerateDeployment(output_path)
    \/ StartEnvironment
    \/ ComposeUp
    \/ WaitLoop
    \/ ProbeAttempt
    \/ Sleep
    \/ ExecuteModels
    \/ PullResponse
    \/ StopEnvironment
    \/ \E dry_run \in BOOLEAN, cfg \in {"missing", "invalid", "valid"} :
          Deploy(dry_run, cfg)

Spec == Init /\ [][Next]_vars

\* the steps inside a call: the code is sequential, and each external call
\* (the start process, a probe, a pull, the sleep) returns
Steps == ComposeUp \/ WaitLoop \/ ProbeAttempt \/ Sleep \/ ExecuteModels \/ PullResponse

\* a manager on which only start_environment is called, with fair steps
LiveNext ==
    \/ StartEnvironment
    \/ ComposeUp
    \/ WaitLoop
    \/ ProbeAttempt
    \/ Sleep
    \/ ExecuteModels
    \/ PullResponse

LiveSpec == Init /\ [][LiveNext]_vars /\ WF_vars(Steps)

\* ------------------------------------------- the generator used on its own
\* DockerComposeGenerator(run_config).generate() for every configuration and
\* every answer an adapter can give for its engine section.
Chars == {"d", "/", "~", ":"}
Decls == SeqsUpTo(Chars, MaxDeclLen)
ServiceDefs ==
    {[image |-> "img", has_volumes |-> FALSE, volumes |-> <<>>]}
    \cup {[image |-> "img", has_volumes |-> TRUE, volumes |-> v] :
            v \in SeqsUpTo(Decls, MaxVolumes)}
RunConfigs == [provider : Providers, models : SeqsUpTo(ModelNames, MaxModels)]

\* the adapter built at generators.py:21 or 25: a function of engine_conf
AdapterAnswer(conf) ==
    IF conf = engine_conf(gen.input) THEN gen.service_def ELSE NoService

GenInit ==
    /\ gen \in [input : RunConfigs, service_def : ServiceDefs,
                output : {NoGen.output}, called : {FALSE}]
    /\ config = gen.input
    /\ docker = "installed"
    /\ fs = [p \in Paths |-> Absent]
    /\ compose_file = DefaultPath
    /\ session = "Unstarted"
    /\ genCalled = FALSE
    /\ op = "none"
    /\ pc = "idle"
    /\ result = Ok
    /\ pre = [compose_file |-> DefaultPath, fs |-> fs, session |-> "Unstarted",
               output_path |-> DefaultPath]
    /\ upCalls = 0 /\ downCalls = 0 /\ upExit = "none"
    /\ readyAt = 0 /\ elapsed = 0 /\ probes = 0 /\ probeEnd = 0
    /\ gapsOk = TRUE /\ healthOk = FALSE
    /\ idx = 0 /\ pullLog = <<>>
    /\ upPath = "none" /\ downPath = "none" /\ downExit = "none"
    /\ cli = NoCli

\* generators.py:11-49
GenerateCall ==
    /\ ~gen.called
    /\ gen' = [gen EXCEPT !.output = generate_with(AdapterAnswer(engine_conf(gen.input)),
                                                   gen.input),
                          !.called = TRUE]
    /\ UNCHANGED <<config, docker, fs, compose_file, session, genCalled, op, pc,
                   result, pre, upCalls, downCalls, upExit, readyAt, elapsed, probes,
                   probeEnd, gapsOk, healthOk, idx, pullLog, upPath, downPath,
                   downExit, cli>>

GenNext == GenerateCall

GenSpec == GenInit /\ [][GenNext]_vars

\* ------------------------------------------------------------------ claims
InHealth == pc \in {"health", "probe", "sleep"}
InModels == pc \in {"models", "pull"}
LastPull == pullLog[Len(pullLog)]

\* C1: when 'docker-compose up' exits non-zero, start_environment has failed
\* with the start-up error and no health probe and no model pull was issued.
C1_StartFailureAborts ==
    (op = "start" /\ upExit = "nonzero") =>
        /\ pc = "idle"
        /\ result = Raised("RuntimeError", "up")
        /\ session = "Failed"
        /\ probes = 0 /\ ~healthOk
        /\ idx = 0 /\ pullLog = <<>>

C1_Witness == op = "start" /\ upExit = "nonzero" /\ upCalls = 1 /\ pc = "idle"

\* C2: start_environment on a manager whose generate_deployment was never
\* called fails with the usage error and never invokes docker-compose,
\* whatever files exist.
C2_StartBeforeGenerateIsUsageError ==
    (op = "start" /\ ~genCalled /\ pre.session = "Unstarted") =>
        /\ upCalls = 0
        /\ pc = "idle" => result = Raised("FileNotFoundError", "precheck")

\* the N-th attempt begins before the deadline however slow the earlier ones
WithinBudget(n) == (n - 1) * (ProbeTicks + PollTicks) < TimeoutTicks

\* C3: a probe that fails N-1 times and succeeds on the N-th attempt, N within
\* the budget, ends the health poll in success after exactly N attempts, each
\* retry one poll interval after the failure before it.
C3_ReadyAfterNAttempts ==
    (op = "start" /\ upExit = "zero" /\ readyAt # 0 /\ WithinBudget(readyAt)
       /\ ~InHealth) =>
        /\ healthOk
        /\ probes = readyAt
        /\ gapsOk

\* C4: a probe that never succeeds ends start_environment in the timeout
\* error, raised between Timeout and Timeout + PollInterval after the poll
\* began.
C4_TimeoutWithinOneInterval ==
    (op = "start" /\ upExit = "zero" /\ readyAt = 0 /\ pc = "idle") =>
        /\ result = Raised("TimeoutError", "health")
        /\ elapsed >= TimeoutTicks
        /\ elapsed <= TimeoutTicks + PollTicks

\* C5: for ollama the pulls follow the configured order one at a time, each
\* after the previous one succeeded; a failed pull is the last one and its
\* error leaves start_environment; a normal return pulled every model once.
C5_PullsSequential ==
    config.provider = "ollama" =>
        /\ Len(pullLog) <= Len(config.models)
        /\ \A k \in 1..Len(pullLog) : pullLog[k].name = config.models[k]
        /\ \A k \in 1..(Len(pullLog) - 1) : pullLog[k].status = "ok"
        /\ (pc = "pull") <=> (pullLog # <<>> /\ LastPull.status = "inflight")
        /\ (pullLog # <<>> /\ LastPull.status = "failed") =>
              (pc = "idle" /\ result = Raised("RequestException", "pull"))
        /\ (op = "start" /\ pc = "idle" /\ result = Ok) =>
              (Len(pullLog) = Len(config.models)
               /\ \A k \in 1..Len(pullLog) : pullLog[k].status = "ok")

C5_Witness ==
    /\ config.provider = "ollama"
    /\ Len(config.models) = 2 /\ Len(pullLog) = 2
    /\ pullLog[1].status = "ok" /\ pullLog[2].status = "failed"

\* C6: the health poll ends only by a successful probe or by the timeout; no
\* other error leaves it.
C6_PollEndsReachableOrTimeout ==
    (op = "start" /\ upExit = "zero" /\ ~InHealth) =>
        (healthOk \/ result = Raised("TimeoutError", "health"))

\* C7: execute_models runs, and a pull is requested, only inside a
\* start_environment call whose 'up' exited zero and whose probe succeeded;
\* a call that ended in the health timeout requested no pull.
C7_LoadOnlyAfterHealthy ==
    /\ (InModels \/ idx > 0 \/ pullLog # <<>>) =>
          (op = "start" /\ upCalls = 1 /\ upExit = "zero" /\ healthOk)
    /\ result.kind = "TimeoutError" => (idx = 0 /\ pullLog = <<>>)

C7_Witness == pc = "pull" /\ probes > 1 /\ healthOk

\* C8: generate_deployment with an unsupported provider fails with the
\* configuration error and leaves every file as it was.
C8_UnsupportedProviderNoWrite ==
    (op = "generate" /\ config.provider \notin SupportedProviders) =>
        /\ result = Raised("ValueError", "generate")
        /\ fs = pre.fs

\* C9: a generate_deployment that failed on an unsupported provider left the
\* recorded manifest path and the lifecycle state as they were.
C9_FailedGenerateLeavesSession ==
    (op = "generate" /\ config.provider \notin SupportedProviders
       /\ result.kind # "none") =>
        /\ compose_file = pre.compose_file
        /\ session = pre.session

\* C10: generate_deployment with a supported provider, called in Unstarted or
\* Stopped, returns normally with the manifest written at output_path, the
\* path recorded, the state Generated, and no process or network call made.
C10_GenerateWritesManifest ==
    (op = "generate" /\ config.provider \in SupportedProviders
       /\ pre.session \in {"Unstarted", "Stopped"}) =>
        /\ result = Ok
        /\ fs[pre.output_path] = ManifestFile(generate(config).doc)
        /\ compose_file = pre.output_path
        /\ session = "Generated"
        /\ upCalls = 0 /\ downCalls = 0 /\ probes = 0 /\ pullLog = <<>>

\* C11: stop_environment called in Running, Generated or Failed runs the
\* teardown command against the recorded manifest once and ends in Stopped
\* without raising, whatever became of the command.
C11_StopBestEffort ==
    (op = "stop" /\ pre.session \in {"Running", "Generated", "Failed"}) =>
        /\ downCalls = 1
        /\ downPath = pre.compose_file
        /\ result = Ok
        /\ session = "Stopped"

\* C12: start_environment runs the start command only from state Generated;
\* from Running, Stopped or Failed (or Unstarted) it does not.
C12_StartOnlyFromGenerated ==
    (op = "start" /\ upCalls > 0) => pre.session = "Generated"

\* C16: for vllm the model-load step requests nothing and cannot fail: once
\* the probe succeeded the call returns normally, state Running.
C16_VllmLoadIsNoOp ==
    (config.provider = "vllm" /\ op = "start") =>
        /\ pullLog = <<>> /\ pc # "pull"
        /\ healthOk => result \in {Pending, Ok}
        /\ (healthOk /\ pc = "idle") => (result = Ok /\ session = "Running")

C16_Witness ==
    /\ config.provider = "vllm" /\ Len(config.models) = 2
    /\ op = "start" /\ healthOk /\ pc = "idle" /\ idx = 3

\* C18: a start_environment call runs the start command at most once and
\* never the teardown command, on its failure paths too; 'down' runs only in
\* a stop_environment call.
C18_NoRetryNoTeardown ==
    /\ op = "start" => (upCalls <= 1 /\ downCalls = 0 /\ downPath = "none")
    /\ downCalls > 0 => op = "stop"
    /\ upCalls > 0 => op = "start"

C18_Witness ==
    /\ op = "start" /\ pc = "idle" /\ upCalls = 1
    /\ result.kind \in {"TimeoutError", "RequestException"}

\* C19: start_environment and stop_environment leave compose_file as it was,
\* and the teardown command names the manifest of the latest start command.
C19_TeardownTargetsStartedManifest ==
    /\ op \in {"start", "stop"} => compose_file = pre.compose_file
    /\ (op = "stop" /\ upPath # "none") => downPath = upPath

\* the step whose failure each exception class reports
StepOf(kind) ==
    CASE kind = "ValueError" -> "generate"
      [] kind = "OSError" -> "write"
      [] kind = "FileNotFoundError" -> "precheck"
      [] kind = "RuntimeError" -> "up"
      [] kind = "TimeoutError" -> "health"
      [] kind = "RequestException" -> "pull"
      [] OTHER -> "unlisted"

\* C14: every failure of a manager operation surfaces as the outcome of its
\* own kind, which no other kind of failure produces: an unsupported provider
\* as the configuration error, and each error class from its one step; a
\* normal return of start_environment means every step succeeded.
C14_FailureKindsDistinct ==
    (pc = "idle" /\ op # "none") =>
        /\ result # Ok => result.at = StepOf(result.kind)
        /\ (op = "generate" /\ config.provider \notin SupportedProviders) =>
              result.kind = "ValueError"
        /\ (op = "start" /\ result = Ok) =>
              (upExit = "zero" /\ healthOk
               /\ \A k \in 1..Len(pullLog) : pullLog[k].status = "ok")

\* C17: the deploy command calls generate_deployment first and enters
\* start_environment only after it succeeded; with dry_run, for a supported
\* provider, the manifest is generated and no process is run, no probe and
\* no pull made.
C17_DeployGeneratesThenStarts ==
    (cli.cmd = "deploy" /\ cli.cfg = "valid") =>
        /\ genCalled
        /\ op = "start" => (session # "Unstarted"
                            /\ fs[DefaultPath].text = "manifest")
        /\ (cli.dry_run /\ config.provider \in SupportedProviders) =>
              /\ op = "generate" /\ result = Ok /\ ExitCode = 0
              /\ fs[DefaultPath] = ManifestFile(generate(config).doc)
              /\ upCalls = 0 /\ downCalls = 0 /\ probes = 0 /\ pullLog = <<>>

\* the set of model names of a models list
ModelSet(models) == {models[k] : k \in 1..Len(models)}

\* C13: for vllm, configurations that differ only in their models never get
\* the same service definition in the manifest.
C13_ModelsReachServiceDefinition ==
    (gen.called /\ gen.input.provider = "vllm") =>
        \A m \in SeqsUpTo(ModelNames, MaxModels) :
            ModelSet(m) # ModelSet(gen.input.models) =>
                LET other == [gen.input EXCEPT !.models = m]
                IN generate_with(AdapterAnswer(engine_conf(other)), other).doc.service
                      # gen.output.doc.service

\* the text of a declaration left of its first colon
LeftOf(decl) ==
    LET colons == {k \in 1..Len(decl) : decl[k] = ":"}
        stop == IF colons = {} THEN Len(decl) + 1
                ELSE CHOOSE k \in colons : \A j \in colons : k <= j
    IN SubSeq(decl, 1, stop - 1)

Bare(name) == \A k \in 1..Len(name) : name[k] \notin {"/", "~"}

\* C15: the manifest's volumes section holds the left-hand side L of a
\* volume declaration exactly when L has neither "/" nor "~", and holds
\* nothing else; a service definition without volumes gives an empty section.
C15_NamedVolumesBySyntax ==
    (gen.called /\ gen.output.error = "none") =>
        LET sd == gen.service_def
            keys == gen.output.doc.volumes
        IN /\ \A k \in 1..Len(sd.volumes) :
                 (LeftOf(sd.volumes[k]) \in keys) <=> Bare(LeftOf(sd.volumes[k]))
           /\ \A key \in keys :
                 \E k \in 1..Len(sd.volumes) : key = LeftOf(sd.volumes[k])
           /\ gen.output.doc.service = sd

C15_Witness ==
    /\ gen.called /\ gen.output.error = "none"
    /\ gen.service_def.volumes = << <<"d", ":">> >>
    /\ gen.output.doc.volumes = {<<"d">>}

====
